---- MODULE Spec2Model ----
(***************************************************************************)
(* Model of bluey's run loop (src/src/logic.rs): the select!-driven        *)
(* coordinator, the channels that feed it, the background tasks (adapter   *)
(* acquisition, scanner, pair/connect workers, spinners) and the Bluetooth *)
(* daemon's view of each device.                                           *)
(***************************************************************************)
EXTENDS Integers, Sequences, FiniteSets, Bags, TLC

\* ---------------------------------------------------------------- bounds
MaxPending == 2    \* messages pending on the channels and the fan-in stream together
MaxStreams == 2    \* property streams opened per device address
MaxScans == 2      \* scanner tasks started in one run (first scan + rescans)
MaxWorkers == 2    \* pair/connect workers spawned and not yet completed
MaxTick == 4       \* largest value the loading counter is driven to

\* ------------------------------------------------------- the value domains
Addr == {"A1", "A2"}
Aliases == {"Speaker", "Phone"}
Failures == {"refused"}
KeyCodes == {"q", "Down", "Up", "Left", "Right", "s", "Enter", "Esc", "other"}
IntakeSteps == {"device", "is_paired", "is_connected", "events", "alias"}

\* Option<T>
None == <<>>
Some(x) == <<x>>
IsSome(o) == Len(o) = 1
IsNone(o) == Len(o) = 0
Unwrap(o) == o[1]

\* Result<T, E>
Ok(x) == <<"Ok", x>>
Err(e) == <<"Err", e>>

\* ------------------------------------------------ IndexMap<Address, Device>
\* An IndexMap is a sequence of entries in insertion order, keys unique.
Keys(m) == {m[i].key : i \in 1..Len(m)}
contains_key(m, k) == k \in Keys(m)
get_index_of(m, k) == CHOOSE i \in 1..Len(m) : m[i].key = k
get(m, k) == m[get_index_of(m, k)].value
\* insert: an existing key keeps its position and gets the new value
insert(m, k, v) ==
    IF contains_key(m, k)
    THEN [m EXCEPT ![get_index_of(m, k)].value = v]
    ELSE Append(m, [key |-> k, value |-> v])
\* shift_remove: the entries after the removed one move up, order kept
shift_remove(m, k) == SelectSeq(m, LAMBDA e : e.key # k)
\* get_index(i): i is 0-based
get_index(m, i) == IF i < Len(m) THEN Some(m[i + 1]) ELSE None

Device(alias, connected, loading) ==
    [alias |-> alias, connected |-> connected, loading |-> loading]

Error(message, process) == [message |-> message, process |-> process]

\* one label for both lists
ProcessConnecting(list, alias) == "connecting to " \o alias

\* format!("connecting to {alias}") / format!("pairing with {alias}")
ProcessOf(list, alias) ==
    IF list = "Paired" THEN "connecting to " \o alias ELSE "pairing with " \o alias

\* What the surroundings of one run can do. Every run is driven by one of
\* these: the devices in range and what they report, which property kinds the
\* daemon signals besides Paired, whether calls fail, whether a scanner task
\* may end by itself, whether the paired state changes during intake, how far
\* a spinner counts, and how many streams per device, scanner tasks and running
\* workers the run sees.
Environment(addrs, aliases, connected, props, failures, scan_ends, races, ticks, streams_, scans, workers_) ==
    [addrs |-> addrs, aliases |-> aliases, connected |-> connected, props |-> props,
     failures |-> failures, scan_ends |-> scan_ends, races |-> races, ticks |-> ticks,
     streams |-> streams_, scans |-> scans, workers |-> workers_]

\* one device; activation, completion, failures, rescan and re-discovery
EnvOperations ==
    Environment({"A1"}, {"Speaker"}, {FALSE}, {}, Failures, FALSE, FALSE, 1,
                MaxStreams, MaxScans, MaxWorkers)

\* two devices; discovery, paired changes, navigation, rescan, scanners that end
EnvRegistry ==
    Environment(Addr, {"Speaker"}, {FALSE}, {}, {}, TRUE, FALSE, 0,
                MaxStreams, MaxScans, 0)

\* two devices; navigation and one activation that succeeds
EnvSelection ==
    Environment(Addr, {"Speaker"}, {FALSE}, {}, {}, FALSE, FALSE, 0, 1, 1, 1)

\* one device; every property kind, changes racing with intake
EnvProperties ==
    Environment({"A1"}, Aliases, BOOLEAN, {"Alias", "Connected", "Rssi"}, {}, FALSE,
                TRUE, 0, MaxStreams, 1, 0)

\* one device; a spinner that counts, aliases that change, calls that fail
EnvSpinner ==
    Environment({"A1"}, Aliases, {FALSE}, {"Alias"}, Failures, FALSE, FALSE,
                MaxTick, 1, 1, 1)

Environments ==
    {EnvOperations, EnvRegistry, EnvSelection, EnvProperties, EnvSpinner}

\* ---------------------------------------------------------------- state
VARIABLES
    pc,             \* position of the loop: "draw", "select" or "exited"
    result,         \* None while running, Some(Ok/Err) once run has returned
    app,            \* App {selected_list, selected_row, unpaired, paired, error}
    adapter,        \* Option<Adapter>
    adapter_task,   \* the get_adapter task: "running" or "done"
    rx_adapter,     \* mpsc::channel(1) of Result<Adapter>
    adapter_events_handle, \* Option<JoinHandle>: the scanner task it names
    scanners,       \* scanner tasks that are neither aborted nor finished
    scan_count,     \* scanner tasks started so far
    rx_additions,   \* unbounded channel of discovered addresses (with the sending scanner)
    streams,        \* changes: number of property streams pushed per address
    changes,        \* changes: events pending in the SelectAll
    rx_errors,      \* unbounded channel of Error
    rx_spinner_tick,\* unbounded channel of Address
    rx_complete,    \* unbounded channel of Address
    spinners,       \* HashMap<Address, JoinHandle>: its keys
    orphans,        \* addresses with a live spinner task whose handle was overwritten
    workers,        \* bag of running pair/connect workers
    reporting,      \* bag of Errors that workers whose call failed have yet to send
    devPaired,      \* the Bluetooth daemon's paired state of each device
    observed,       \* history: the connected value the loop last received per address
    env             \* what the surroundings of this run can do (fixed at start)

vars == <<pc, result, app, adapter, adapter_task, rx_adapter,
          adapter_events_handle, scanners, scan_count, rx_additions, streams,
          changes, rx_errors, rx_spinner_tick, rx_complete, spinners, orphans,
          workers, reporting, devPaired, observed, env>>

\* App::default(): List::Unpaired, row 0, both maps empty, no error
AppDefault ==
    [selected_list |-> "Unpaired", selected_row |-> 0,
     unpaired |-> <<>>, paired |-> <<>>, error |-> None]

Init ==
    /\ pc = "draw"
    /\ result = None
    /\ app = AppDefault
    /\ adapter = None
    /\ adapter_task = "running"
    /\ rx_adapter = <<>>
    /\ adapter_events_handle = None
    /\ scanners = {}
    /\ scan_count = 0
    /\ rx_additions = <<>>
    /\ streams = [a \in Addr |-> 0]
    /\ changes = <<>>
    /\ rx_errors = <<>>
    /\ rx_spinner_tick = <<>>
    /\ rx_complete = <<>>
    /\ spinners = {}
    /\ orphans = {}
    /\ workers = EmptyBag
    /\ reporting = EmptyBag
    /\ observed = [a \in Addr |-> None]
    /\ env \in Environments
    /\ devPaired \in [Addr -> BOOLEAN]
    /\ \A a \in Addr \ env.addrs : ~devPaired[a]

\* ------------------------------------------------------------- helpers
Copies(n, e) == [i \in 1..n |-> e]
Count(q, a) == Cardinality({i \in 1..Len(q) : q[i].addr = a})
RemoveAt(q, i) == SubSeq(q, 1, i - 1) \o SubSeq(q, i + 1, Len(q))

\* app.paired.get_mut(&addr).or_else(|| app.unpaired.get_mut(&addr))
get_mut(ap, a) ==
    IF contains_key(ap.paired, a) THEN Some(get(ap.paired, a))
    ELSE IF contains_key(ap.unpaired, a) THEN Some(get(ap.unpaired, a))
    ELSE None

\* write through the reference get_mut returned: d.loading = l
set_loading(ap, a, l) ==
    IF contains_key(ap.paired, a)
    THEN [ap EXCEPT !.paired = insert(@, a, [get(@, a) EXCEPT !.loading = l])]
    ELSE IF contains_key(ap.unpaired, a)
    THEN [ap EXCEPT !.unpaired = insert(@, a, [get(@, a) EXCEPT !.loading = l])]
    ELSE ap

\* the mapping selected_list names
ActiveMap(ap) == IF ap.selected_list = "Unpaired" THEN ap.unpaired ELSE ap.paired

\* run has returned: its locals are dropped and the runtime shuts the tasks down
Exited(res) ==
    /\ pc' = "exited"
    /\ result' = Some(res)
    /\ app' = AppDefault
    /\ adapter' = None
    /\ adapter_task' = "done"
    /\ rx_adapter' = <<>>
    /\ adapter_events_handle' = None
    /\ scanners' = {}
    /\ scan_count' = 0
    /\ rx_additions' = <<>>
    /\ streams' = [a \in Addr |-> 0]
    /\ changes' = <<>>
    /\ rx_errors' = <<>>
    /\ rx_spinner_tick' = <<>>
    /\ rx_complete' = <<>>
    /\ spinners' = {}
    /\ orphans' = {}
    /\ workers' = EmptyBag
    /\ reporting' = EmptyBag
    /\ observed' = [a \in Addr |-> None]
    /\ UNCHANGED <<devPaired, env>>

\* what a handler leaves alone besides the loop's own state
loopVars == <<app, adapter, adapter_events_handle, scanners, scan_count,
              streams, spinners, orphans, workers>>
chanVars == <<rx_adapter, rx_additions, changes, rx_errors, rx_spinner_tick,
              rx_complete>>
envVars == <<adapter_task, reporting, devPaired, observed, env>>

\* the end of an arm that goes back to waiting without a redraw
HandledWithoutDraw == pc' = "select" /\ UNCHANGED result

\* the end of a select! arm: back to the top of the loop, the frame is stale
Handled == pc' = "draw" /\ UNCHANGED result

\* messages sent and not yet received by the loop, and errors about to be sent
Pending ==
    Len(rx_additions) + Len(changes) + Len(rx_errors) + Len(rx_spinner_tick)
        + Len(rx_complete) + BagCardinality(reporting)

\* ------------------------------------------- background tasks and the daemon
\* tokio::spawn(get_adapter): sends its result once, then the sender is dropped
AdapterTask ==
    /\ pc = "select"
    /\ adapter_task = "running"
    /\ \E res \in {Ok("hci0")} \cup {Err(f) : f \in env.failures} :
          rx_adapter' = Append(rx_adapter, res)
    /\ adapter_task' = "done"
    /\ UNCHANGED <<pc, result, loopVars, rx_additions, changes, rx_errors,
                   rx_spinner_tick, rx_complete, reporting, devPaired, observed, env>>

\* scan: AdapterEvent::DeviceAdded(addr) => tx_additions.send(addr)
ScannerEmit ==
    /\ pc = "select"
    /\ Pending < MaxPending
    /\ \E g \in scanners, a \in env.addrs :
          /\ streams[a] + Count(rx_additions, a) < env.streams
          /\ rx_additions' = Append(rx_additions, [addr |-> a, scan |-> g])
    /\ UNCHANGED <<pc, result, loopVars, rx_adapter, changes, rx_errors,
                   rx_spinner_tick, rx_complete, envVars>>

\* scan: discover_devices failed, or the event stream ended: the task returns
ScannerEnd ==
    /\ pc = "select"
    /\ env.scan_ends
    /\ \E g \in scanners : scanners' = scanners \ {g}
    /\ UNCHANGED <<pc, result, app, adapter, adapter_events_handle,
                   scan_count, streams, spinners, orphans, workers, chanVars,
                   envVars>>

\* the daemon changes a device's paired state; every open stream of the
\* device yields DeviceProperty::Paired(new)
DaemonPaired ==
    /\ pc = "select"
    /\ \E a \in env.addrs :
          /\ Pending + streams[a] <= MaxPending
          /\ devPaired' = [devPaired EXCEPT ![a] = ~@]
          /\ changes' = changes \o
                Copies(streams[a], [addr |-> a, prop |-> "Paired", val |-> ~devPaired[a]])
    /\ UNCHANGED <<pc, result, loopVars, rx_adapter, rx_additions, rx_errors,
                   rx_spinner_tick, rx_complete, adapter_task, reporting, observed, env>>

\* another property of a device changes; every open stream yields it
DaemonProperty ==
    /\ pc = "select"
    /\ \E a \in env.addrs :
          /\ streams[a] > 0
          /\ Pending + streams[a] <= MaxPending
          /\ \E e \in {[addr |-> a, prop |-> "Alias", val |-> x] : x \in env.aliases}
                   \cup {[addr |-> a, prop |-> "Connected", val |-> c] : c \in env.connected}
                   \cup {[addr |-> a, prop |-> "Rssi", val |-> 0]} :
                /\ e.prop \in env.props
                /\ changes' = changes \o Copies(streams[a], e)
    /\ UNCHANGED <<pc, result, loopVars, rx_adapter, rx_additions, rx_errors,
                   rx_spinner_tick, rx_complete, envVars>>

\* a worker that reports its failure first: tx_errors.send before
\* tx_complete.send
WorkerFinishErrorFirst ==
    /\ pc = "select"
    /\ Pending < MaxPending
    /\ \E w \in BagToSet(workers), res \in {Ok("unit")} \cup {Err(f) : f \in env.failures} :
          /\ workers' = workers (-) SetToBag({w})
          /\ rx_complete' = Append(rx_complete, w.addr)
          /\ IF res[1] = "Err"
             THEN /\ Pending + 1 < MaxPending
                  /\ rx_errors' = Append(rx_errors, Error(res[2], w.process))
             ELSE UNCHANGED rx_errors
    /\ UNCHANGED <<pc, result, app, adapter, adapter_events_handle, scanners,
                   scan_count, streams, spinners, orphans, rx_adapter, rx_additions,
                   changes, rx_spinner_tick, envVars>>

\* a worker's pair()/connect() returns: tx_complete.send(addr) first, whatever
\* the result; on Err the task goes on to send the error
WorkerFinish ==
    /\ pc = "select"
    /\ Pending < MaxPending
    /\ \E w \in BagToSet(workers), res \in {Ok("unit")} \cup {Err(f) : f \in env.failures} :
          /\ workers' = workers (-) SetToBag({w})
          /\ rx_complete' = Append(rx_complete, w.addr)
          /\ IF res[1] = "Err"
             THEN /\ Pending + 1 < MaxPending
                  /\ reporting' = reporting (+) SetToBag({Error(res[2], w.process)})
             ELSE UNCHANGED reporting
    /\ UNCHANGED <<pc, result, app, adapter, adapter_events_handle, scanners,
                   scan_count, streams, spinners, orphans, rx_adapter, rx_additions,
                   changes, rx_errors, rx_spinner_tick, adapter_task, devPaired, observed, env>>

\* if let Err(error) = res { tx_errors.send(Error {message, process}) }: the
\* last thing a failed worker does
WorkerReport ==
    /\ pc = "select"
    /\ \E e \in BagToSet(reporting) :
          /\ reporting' = reporting (-) SetToBag({e})
          /\ rx_errors' = Append(rx_errors, e)
    /\ UNCHANGED <<pc, result, loopVars, rx_adapter, rx_additions, changes,
                   rx_spinner_tick, rx_complete, adapter_task, devPaired, observed, env>>

\* a live spinner task wakes after SPINNER_TICK: tx_spinner_tick.send(addr)
SpinnerTick ==
    /\ pc = "select"
    /\ Pending < MaxPending
    /\ \E a \in spinners \cup orphans :
          /\ LET d == get_mut(app, a) IN
                IsSome(d) /\ IsSome(Unwrap(d).loading)
                    => Unwrap(Unwrap(d).loading) < env.ticks
          /\ rx_spinner_tick' = Append(rx_spinner_tick, a)
    /\ UNCHANGED <<pc, result, loopVars, rx_adapter, rx_additions, changes,
                   rx_errors, rx_complete, envVars>>

\* --------------------------------------------------------------- the loop
\* terminal.draw(|frame| app.render(frame)).wrap_err("Failed to draw")?
Draw ==
    /\ pc = "draw"
    /\ pc' = "select"
    /\ UNCHANGED <<result, loopVars, chanVars, envVars>>

DrawFail ==
    /\ pc = "draw"
    /\ Exited(Err("Failed to draw"))

\* the counter kept within four values, as the frame shown is
wrapping_add_mod4(n, k) == (n + k) % 4

\* usize::wrapping_add: SpinnerTick stops counting far below usize::MAX, so
\* the sum never wraps here
wrapping_add(n, k) == n + k

\* ui.rs: THROBBERS[index % 4], the frame shown for a loading counter
throbber_index(index) == index % 4

\* Some(addr) = rx_spinner_tick.recv()
Tick ==
    /\ pc = "select"
    /\ rx_spinner_tick # <<>>
    /\ LET addr == Head(rx_spinner_tick)
           d == get_mut(app, addr)
       IN /\ rx_spinner_tick' = Tail(rx_spinner_tick)
          /\ app' = IF IsSome(d) /\ IsSome(Unwrap(d).loading)
                    THEN set_loading(app, addr,
                             Some(wrapping_add(Unwrap(Unwrap(d).loading), 1)))
                    ELSE app
          /\ Handled
    /\ UNCHANGED <<adapter, adapter_events_handle, scanners, scan_count, streams,
                   spinners, orphans, workers, rx_adapter, rx_additions, changes,
                   rx_errors, rx_complete, envVars>>

\* Some(addr) = rx_complete.recv()
Complete ==
    /\ pc = "select"
    /\ rx_complete # <<>>
    /\ LET addr == Head(rx_complete)
           d == get_mut(app, addr)
       IN /\ rx_complete' = Tail(rx_complete)
          /\ IF IsSome(d)
             THEN /\ app' = set_loading(app, addr, None)
                  /\ spinners' = spinners \ {addr}
             ELSE UNCHANGED <<app, spinners>>
          /\ Handled
    /\ UNCHANGED <<adapter, adapter_events_handle, scanners, scan_count, streams,
                   orphans, workers, rx_adapter, rx_additions, changes, rx_errors,
                   rx_spinner_tick, envVars>>

\* an error is stored only when none is displayed
ErrorRecvKeepsFirst ==
    /\ pc = "select"
    /\ rx_errors # <<>>
    /\ rx_errors' = Tail(rx_errors)
    /\ app' = IF IsSome(app.error) THEN app ELSE [app EXCEPT !.error = Some(Head(rx_errors))]
    /\ Handled
    /\ UNCHANGED <<adapter, adapter_events_handle, scanners, scan_count, streams,
                   spinners, orphans, workers, rx_adapter, rx_additions, changes,
                   rx_spinner_tick, rx_complete, envVars>>

\* Some(error) = rx_errors.recv()
ErrorRecv ==
    /\ pc = "select"
    /\ rx_errors # <<>>
    /\ rx_errors' = Tail(rx_errors)
    /\ app' = [app EXCEPT !.error = Some(Head(rx_errors))]
    /\ Handled
    /\ UNCHANGED <<adapter, adapter_events_handle, scanners, scan_count, streams,
                   spinners, orphans, workers, rx_adapter, rx_additions, changes,
                   rx_spinner_tick, rx_complete, envVars>>

\* Some(addr) = rx_additions.recv(): device intake. fail is the first call that
\* returns Err ("none": all succeed); raced: the daemon flips the paired state
\* between is_paired() and events(), so the new stream never yields that change.
Addition ==
    /\ pc = "select"
    /\ rx_additions # <<>>
    /\ rx_additions' = Tail(rx_additions)
    /\ \E fail \in IntakeSteps \cup {"none"}, connected \in env.connected,
          alias \in env.aliases, raced \in BOOLEAN :
          LET m == Head(rx_additions)
              addr == m.addr
              paired == devPaired[addr]
              opened == IsSome(adapter) /\ fail \in {"alias", "none"}
              device == Device(alias, connected, None)
          IN /\ raced => opened /\ Pending - 1 + streams[addr] <= MaxPending
             /\ fail # "none" => env.failures # {}
             /\ raced => env.races
             /\ IF opened
                THEN /\ streams' = [streams EXCEPT ![addr] = @ + 1]
                     /\ IF raced
                        THEN /\ devPaired' = [devPaired EXCEPT ![addr] = ~paired]
                             /\ changes' = changes \o Copies(streams[addr],
                                   [addr |-> addr, prop |-> "Paired", val |-> ~paired])
                        ELSE UNCHANGED <<devPaired, changes>>
                ELSE UNCHANGED <<streams, devPaired, changes>>
             /\ app' = IF IsSome(adapter) /\ fail = "none"
                       THEN IF paired
                            THEN [app EXCEPT !.paired = insert(@, addr, device)]
                            ELSE [app EXCEPT !.unpaired = insert(@, addr, device)]
                       ELSE app
             /\ observed' = IF IsSome(adapter) /\ fail = "none"
                            THEN [observed EXCEPT ![addr] = Some(connected)]
                            ELSE observed
             /\ Handled
    /\ UNCHANGED <<adapter, adapter_events_handle, scanners, scan_count, spinners,
                   orphans, workers, rx_adapter, rx_errors, rx_spinner_tick,
                   rx_complete, adapter_task, reporting, env>>

\* apply_property with the moved record built anew, as intake builds one:
\* the operation in flight is forgotten by the move
apply_property_rebuilt(ap, addr, prop, val) ==
    CASE prop = "Alias" ->
            IF contains_key(ap.paired, addr)
            THEN [ap EXCEPT !.paired = insert(@, addr, [get(@, addr) EXCEPT !.alias = val])]
            ELSE ap
      [] prop = "Connected" ->
            IF contains_key(ap.paired, addr)
            THEN [ap EXCEPT !.paired = insert(@, addr, [get(@, addr) EXCEPT !.connected = val])]
            ELSE ap
      [] prop = "Paired" /\ val ->
            IF contains_key(ap.unpaired, addr)
            THEN [ap EXCEPT !.unpaired = shift_remove(@, addr),
                            !.paired = insert(@, addr,
                                [get(ap.unpaired, addr) EXCEPT !.loading = None])]
            ELSE ap
      [] prop = "Paired" /\ ~val ->
            IF contains_key(ap.paired, addr)
            THEN [ap EXCEPT !.paired = shift_remove(@, addr),
                            !.unpaired = insert(@, addr,
                                [get(ap.paired, addr) EXCEPT !.loading = None])]
            ELSE ap
      [] OTHER -> ap

\* the effect of one DeviceEvent::PropertyChanged(property) on the registry
apply_property(ap, addr, prop, val) ==
    CASE prop = "Alias" ->
            IF contains_key(ap.paired, addr)
            THEN [ap EXCEPT !.paired = insert(@, addr, [get(@, addr) EXCEPT !.alias = val])]
            ELSE ap
      [] prop = "Connected" ->
            IF contains_key(ap.paired, addr)
            THEN [ap EXCEPT !.paired = insert(@, addr, [get(@, addr) EXCEPT !.connected = val])]
            ELSE ap
      [] prop = "Paired" /\ val ->
            IF contains_key(ap.unpaired, addr)
            THEN [ap EXCEPT !.unpaired = shift_remove(@, addr),
                            !.paired = insert(@, addr, get(ap.unpaired, addr))]
            ELSE ap
      [] prop = "Paired" /\ ~val ->
            IF contains_key(ap.paired, addr)
            THEN [ap EXCEPT !.paired = shift_remove(@, addr),
                            !.unpaired = insert(@, addr, get(ap.paired, addr))]
            ELSE ap
      [] OTHER -> ap

\* Some((addr, DeviceEvent::PropertyChanged(property))) = changes.next(): the
\* SelectAll yields the next event of any one stream; a device's events keep
\* their order
ChangeEvent(i) ==
    /\ pc = "select"
    /\ i \in 1..Len(changes)
    /\ \A j \in 1..(i - 1) : changes[j].addr # changes[i].addr
    /\ changes' = RemoveAt(changes, i)
    /\ app' = apply_property(app, changes[i].addr, changes[i].prop, changes[i].val)
    /\ observed' = IF changes[i].prop = "Connected"
                   THEN [observed EXCEPT ![changes[i].addr] = Some(changes[i].val)]
                   ELSE observed
    /\ Handled
    /\ UNCHANGED <<adapter, adapter_events_handle, scanners, scan_count, streams,
                   spinners, orphans, workers, rx_adapter, rx_additions, rx_errors,
                   rx_spinner_tick, rx_complete, adapter_task, reporting, devPaired, env>>

Change == \E i \in 1..MaxPending + 1 : ChangeEvent(i)

\* Some(fetched_adapter) = rx_adapter.recv(): fetched_adapter? returns the
\* error; otherwise the first scan starts
AdapterRecv ==
    /\ pc = "select"
    /\ rx_adapter # <<>>
    /\ LET res == Head(rx_adapter) IN
          IF res[1] = "Err"
          THEN Exited(res)
          ELSE /\ rx_adapter' = Tail(rx_adapter)
               /\ scan_count' = scan_count + 1
               /\ scanners' = scanners \cup {scan_count + 1}
               /\ adapter_events_handle' = Some(scan_count + 1)
               /\ adapter' = Some(res[2])
               /\ Handled
               /\ UNCHANGED <<app, streams, spinners, orphans, workers, rx_additions,
                              changes, rx_errors, rx_spinner_tick, rx_complete,
                              envVars>>

\* -------------------------------------------------- Some(event) = events.next()
keyFrame == <<adapter, adapter_events_handle, scanners, scan_count, streams,
              spinners, orphans, workers, chanVars, envVars>>

\* the event is an Err: wrap_err("Failed to read terminal event")?
EventReadFail ==
    /\ pc = "select"
    /\ Exited(Err("Failed to read terminal event"))

\* the event is not Event::Key: continue
EventNotKey ==
    /\ pc = "select"
    /\ Handled
    /\ UNCHANGED <<app, keyFrame>>

\* the gate with the test of the key left out: any key takes the error
KeyPressTakesError(code) ==
    /\ pc = "select"
    /\ IsSome(app.error)
    /\ app' = [app EXCEPT !.error = None]
    /\ Handled
    /\ UNCHANGED keyFrame

\* app.error.is_some(): Esc takes the error, every key continues
KeyPressWhileError(code) ==
    /\ pc = "select"
    /\ IsSome(app.error)
    /\ app' = IF code = "Esc" THEN [app EXCEPT !.error = None] ELSE app
    /\ Handled
    /\ UNCHANGED keyFrame

KeyWhileError == \E code \in KeyCodes : KeyPressWhileError(code)

\* KeyCode::Char('q') => break Ok(())
KeyQuit ==
    /\ pc = "select"
    /\ IsNone(app.error)
    /\ Exited(Ok("unit"))

\* the bound one too far: the length itself
PastLastIndex(len) == len

\* len.checked_sub(1).unwrap_or_default()
LastIndex(len) == IF len >= 1 THEN len - 1 ELSE 0

\* KeyCode::Down
KeyDown ==
    /\ pc = "select"
    /\ IsNone(app.error)
    /\ app' = IF app.selected_row < LastIndex(Len(ActiveMap(app)))
              THEN [app EXCEPT !.selected_row = @ + 1]
              ELSE app
    /\ Handled
    /\ UNCHANGED keyFrame

\* KeyCode::Up
KeyUp ==
    /\ pc = "select"
    /\ IsNone(app.error)
    /\ app' = IF app.selected_row > 0
              THEN [app EXCEPT !.selected_row = @ - 1]
              ELSE app
    /\ Handled
    /\ UNCHANGED keyFrame

\* KeyCode::Left
KeyLeft ==
    /\ pc = "select"
    /\ IsNone(app.error)
    /\ app' = IF app.selected_list = "Paired"
              THEN [app EXCEPT !.selected_list = "Unpaired"]
              ELSE app
    /\ Handled
    /\ UNCHANGED keyFrame

\* KeyCode::Right
KeyRight ==
    /\ pc = "select"
    /\ IsNone(app.error)
    /\ app' = IF app.selected_list = "Unpaired"
              THEN [app EXCEPT !.selected_list = "Paired"]
              ELSE app
    /\ Handled
    /\ UNCHANGED keyFrame

\* the handle dropped without abort(): the task it names keeps running
forget(tasks, handle) == tasks

\* if let Some(h) = &handle { h.abort() }: the task the handle names is cancelled
abort(tasks, handle) == tasks \ {handle[i] : i \in 1..Len(handle)}

\* the rescan key without its adapter guard: it scans whether or not the
\* adapter is there
KeyRescanUnguarded ==
    /\ pc = "select"
    /\ IsNone(app.error)
    /\ scan_count < env.scans
    /\ scanners' = abort(scanners, adapter_events_handle) \cup {scan_count + 1}
    /\ app' = [app EXCEPT !.unpaired = <<>>, !.paired = <<>>]
    /\ adapter_events_handle' = Some(scan_count + 1)
    /\ scan_count' = scan_count + 1
    /\ Handled
    /\ UNCHANGED <<adapter, streams, spinners, orphans, workers, chanVars, envVars>>

\* KeyCode::Char('s'): abort the scanner the handle names, clear both maps,
\* start a new scanner
KeyRescan ==
    /\ pc = "select"
    /\ IsNone(app.error)
    /\ IF IsNone(adapter)
       THEN UNCHANGED <<app, adapter_events_handle, scanners, scan_count>>
       ELSE /\ scan_count < env.scans
            /\ scanners' = abort(scanners, adapter_events_handle)
                              \cup {scan_count + 1}
            /\ app' = [app EXCEPT !.unpaired = <<>>, !.paired = <<>>]
            /\ adapter_events_handle' = Some(scan_count + 1)
            /\ scan_count' = scan_count + 1
    /\ Handled
    /\ UNCHANGED <<adapter, streams, spinners, orphans, workers, chanVars, envVars>>

IndexError == "Attempted to use item that doesn't exist in list. This should be impossible!"

\* *loading = Some(0) through slice.get_index_mut(app.selected_row)
set_loading_at(ap, l) ==
    IF ap.selected_list = "Unpaired"
    THEN [ap EXCEPT !.unpaired[ap.selected_row + 1].value.loading = l]
    ELSE [ap EXCEPT !.paired[ap.selected_row + 1].value.loading = l]

\* the worker task spawned for the selected list
Worker(list, addr, alias) ==
    [addr |-> addr,
     op |-> IF list = "Unpaired" THEN "pair" ELSE "connect",
     process |-> ProcessOf(list, alias)]

\* the guard left out: every Enter dispatches
never_loading(device) == FALSE

\* if loading.is_some() { continue; }
already_loading(device) == IsSome(device.loading)

\* KeyCode::Enter. lookup is the result of adapter.device(addr).
KeyEnter ==
    /\ pc = "select"
    /\ IsNone(app.error)
    /\ LET item == get_index(ActiveMap(app), app.selected_row) IN
       IF IsNone(adapter)
       THEN /\ Handled
            /\ UNCHANGED <<app, keyFrame>>
       ELSE IF IsNone(item)
       THEN Exited(Err(IndexError))
       ELSE IF already_loading(Unwrap(item).value)
       THEN /\ Handled
            /\ UNCHANGED <<app, keyFrame>>
       ELSE LET addr == Unwrap(item).key
                alias == Unwrap(item).value.alias
                process == ProcessOf(app.selected_list, alias)
            IN \E lookup \in {Ok("device")} \cup {Err(f) : f \in env.failures} :
                  /\ IF lookup[1] = "Err"
                     THEN /\ app' = [set_loading_at(app, Some(0)) EXCEPT
                                        !.error = Some(Error(lookup[2], process))]
                          /\ UNCHANGED <<workers, spinners, orphans>>
                     ELSE /\ BagCardinality(workers) < env.workers
                          /\ app' = set_loading_at(app, Some(0))
                          /\ workers' = workers (+)
                                SetToBag({Worker(app.selected_list, addr, alias)})
                          /\ spinners' = spinners \cup {addr}
                          /\ orphans' = IF addr \in spinners
                                        THEN orphans \cup {addr} ELSE orphans
                  /\ Handled
                  /\ UNCHANGED <<adapter, adapter_events_handle, scanners,
                                 scan_count, streams, chanVars, envVars>>

\* KeyCode::Esc with no error displayed: app.error.take()
KeyEsc ==
    /\ pc = "select"
    /\ IsNone(app.error)
    /\ app' = [app EXCEPT !.error = None]
    /\ Handled
    /\ UNCHANGED keyFrame

\* any other key: _ => {}
KeyOther ==
    /\ pc = "select"
    /\ IsNone(app.error)
    /\ Handled
    /\ UNCHANGED <<app, keyFrame>>

\* ------------------------------------------------------- the specification
Next ==
    \/ AdapterTask
    \/ ScannerEmit
    \/ ScannerEnd
    \/ DaemonPaired
    \/ DaemonProperty
    \/ WorkerFinish
    \/ WorkerReport
    \/ SpinnerTick
    \/ Draw
    \/ DrawFail
    \/ Tick
    \/ Complete
    \/ ErrorRecv
    \/ Addition
    \/ Change
    \/ AdapterRecv
    \/ EventReadFail
    \/ EventNotKey
    \/ KeyWhileError
    \/ KeyQuit
    \/ KeyDown
    \/ KeyUp
    \/ KeyLeft
    \/ KeyRight
    \/ KeyRescan
    \/ KeyEnter
    \/ KeyEsc
    \/ KeyOther

Spec == Init /\ [][Next]_vars

\* The scheduling the code relies on: the loop draws whenever it is at the top,
\* select! keeps taking from every source that keeps having an event ready,
\* the adapter task finishes, and every pair()/connect() call returns.
Fairness ==
    /\ WF_vars(Draw)
    /\ WF_vars(AdapterTask)
    /\ SF_vars(WorkerFinish)
    /\ SF_vars(WorkerReport)
    /\ SF_vars(Tick)
    /\ SF_vars(Complete)
    /\ SF_vars(ErrorRecv)
    /\ SF_vars(Addition)
    /\ SF_vars(Change)
    /\ SF_vars(AdapterRecv)

FairSpec == Spec /\ Fairness

\* ------------------------------------------------------------ the claims
\* a record of a in either mapping has loading = Some(_)
Loading(ap, a) ==
    \/ contains_key(ap.unpaired, a) /\ IsSome(get(ap.unpaired, a).loading)
    \/ contains_key(ap.paired, a) /\ IsSome(get(ap.paired, a).loading)

\* a has a record in the registry
Known(ap, a) == contains_key(ap.unpaired, a) \/ contains_key(ap.paired, a)

\* workers spawned for a whose completion event the loop has not yet processed
Outstanding(a) ==
    Cardinality({i \in 1..Len(rx_complete) : rx_complete[i] = a})
        + BagCardinality([w \in {v \in BagToSet(workers) : v.addr = a} |-> workers[w]])

\* C1: no address is a key of both app.unpaired and app.paired.
C1_NoAddressInBothMaps ==
    \A a \in Addr : ~(contains_key(app.unpaired, a) /\ contains_key(app.paired, a))

\* C2: the spinner table has an entry for an address iff the address has a
\* device record whose loading is Some.
C2_SpinnerIffLoading ==
    \A a \in Addr : a \in spinners <=> Loading(app, a)

\* C3: a device's loading is Some exactly when a worker spawned for its address
\* is outstanding.
C3_LoadingIffOutstanding ==
    \A a \in Addr : Known(app, a) => (Loading(app, a) <=> Outstanding(a) >= 1)

\* C4: at most one pair/connect worker is outstanding per device address.
C4_OneWorkerPerAddress ==
    \A a \in Addr : Outstanding(a) <= 1

\* C5: if the active list's mapping is non-empty, selected_row is less than
\* its length.
C5_SelectedRowInBounds ==
    Len(ActiveMap(app)) > 0 => app.selected_row < Len(ActiveMap(app))

\* C6: the loop never terminates with the internal-consistency error of
\* activation.
C6_NoIndexError ==
    result # Some(Err(IndexError))

\* C7: processing a completion event for an address leaves that address with
\* no loading record and no entry in the spinner table.
C7_CompletionClears ==
    [][Complete => /\ ~Loading(app', Head(rx_complete))
                   /\ Head(rx_complete) \notin spinners']_vars

\* C8: after a rescan every address taken into the registry was emitted by the
\* scanner the rescan started (the one adapter_events_handle names).
C8_IntakeOnlyFromCurrentScan ==
    [][Addition /\ app' # app
          => Some(Head(rx_additions).scan) = adapter_events_handle]_vars

\* the entries of m other than a's, in order
Others(m, a) == SelectSeq(m, LAMBDA e : e.key # a)

\* C9: Paired(val) for an address in the source mapping (unpaired for true,
\* paired for false) removes it there and puts it into the other mapping with
\* the same alias, connected and loading; every other entry, the selection and
\* the error slot stay; when the address is not in the source mapping nothing
\* changes.
C9_PairedMove ==
    [][\A i \in 1..Len(changes) :
          ChangeEvent(i) /\ changes[i].prop = "Paired" =>
             LET a == changes[i].addr
                 src == IF changes[i].val THEN app.unpaired ELSE app.paired
                 src2 == IF changes[i].val THEN app'.unpaired ELSE app'.paired
                 dst == IF changes[i].val THEN app.paired ELSE app.unpaired
                 dst2 == IF changes[i].val THEN app'.paired ELSE app'.unpaired
             IN IF a \in Keys(src)
                THEN /\ a \notin Keys(src2)
                     /\ a \in Keys(dst2)
                     /\ \E k \in 1..Len(dst2), j \in 1..Len(src) :
                           /\ dst2[k].key = a /\ src[j].key = a
                           /\ dst2[k].value.alias = src[j].value.alias
                           /\ dst2[k].value.connected = src[j].value.connected
                           /\ dst2[k].value.loading = src[j].value.loading
                     /\ src2 = Others(src, a)
                     /\ Others(dst2, a) = Others(dst, a)
                     /\ app'.selected_list = app.selected_list
                     /\ app'.selected_row = app.selected_row
                     /\ app'.error = app.error
                ELSE app' = app]_vars

\* C9's case: a Paired(true) change is next for a device that sits in unpaired
\* with an operation in flight
C9_Witness ==
    /\ pc = "select"
    /\ \E i \in 1..Len(changes) :
          /\ changes[i].prop = "Paired" /\ changes[i].val
          /\ contains_key(app.unpaired, changes[i].addr)
          /\ IsSome(get(app.unpaired, changes[i].addr).loading)

\* the Enter key is pressed
PressEnter == KeyEnter \/ KeyPressWhileError("Enter")

\* the device at selected_row of the active mapping has loading = Some(_)
SelectedIsLoading ==
    /\ app.selected_row < Len(ActiveMap(app))
    /\ IsSome(ActiveMap(app)[app.selected_row + 1].value.loading)

\* C10: Enter on a selected device whose loading is Some changes neither the
\* registry, the selection, the error slot nor the spinner table, and spawns
\* no worker and no spinner.
C10_EnterWhileLoadingIsNoOp ==
    [][PressEnter /\ SelectedIsLoading
          => UNCHANGED <<app, spinners, orphans, workers>>]_vars

\* C10's case: the loop waits, no error is displayed, the adapter is there and
\* the selected device still has its operation in flight
C10_Witness ==
    /\ pc = "select"
    /\ IsNone(app.error)
    /\ IsSome(adapter)
    /\ SelectedIsLoading
    /\ workers # EmptyBag

\* what a tick, a key or a change event leaves alone besides app and its channel
tasksAndHandles == <<adapter, adapter_events_handle, scanners, scan_count, streams,
                     spinners, orphans, workers>>

\* the loading field of a's record (paired first), None when a has no record
LoadingOf(ap, a) == IF IsSome(get_mut(ap, a)) THEN Unwrap(get_mut(ap, a)).loading ELSE None

\* ap with the loading field of a's record set to None: the rest of the registry
WithoutLoading(ap, a) == set_loading(ap, a, None)

\* C11 as stated: a tick for an address whose loading is Some(n) sets it to
\* Some((n + 1) mod 4); a tick for an address whose loading is None or which
\* is in neither mapping changes no state.
C11_TickMod4 ==
    [][Tick =>
          LET a == Head(rx_spinner_tick) IN
          IF IsSome(LoadingOf(app, a))
          THEN LoadingOf(app', a) = Some((Unwrap(LoadingOf(app, a)) + 1) % 4)
          ELSE app' = app]_vars

\* C11 amended: a tick for an address whose loading is Some(n) sets it to
\* Some(n + 1), so the frame shown advances by one mod 4 and nothing else of
\* the registry, the selection, the error slot or the tasks changes; a tick
\* for an address whose loading is None or which is in neither mapping
\* changes no state.
C11_TickAdvances ==
    [][Tick =>
          LET a == Head(rx_spinner_tick) IN
          /\ UNCHANGED tasksAndHandles
          /\ IF IsSome(LoadingOf(app, a))
             THEN /\ LoadingOf(app', a) = Some(Unwrap(LoadingOf(app, a)) + 1)
                  /\ throbber_index(Unwrap(LoadingOf(app', a)))
                        = (throbber_index(Unwrap(LoadingOf(app, a))) + 1) % 4
                  /\ WithoutLoading(app', a) = WithoutLoading(app, a)
             ELSE app' = app]_vars

\* C11's case: a tick is pending for a device whose counter stands at 3
C11_Witness ==
    /\ pc = "select"
    /\ rx_spinner_tick # <<>>
    /\ LoadingOf(app, Head(rx_spinner_tick)) = Some(3)

\* the key event with the given code is processed
KeyPress(code) ==
    \/ KeyPressWhileError(code)
    \/ code = "q" /\ KeyQuit
    \/ code = "Down" /\ KeyDown
    \/ code = "Up" /\ KeyUp
    \/ code = "Left" /\ KeyLeft
    \/ code = "Right" /\ KeyRight
    \/ code = "s" /\ KeyRescan
    \/ code = "Enter" /\ KeyEnter
    \/ code = "Esc" /\ KeyEsc
    \/ code = "other" /\ KeyOther

\* C12: while the error slot is Some, a key other than Esc changes no state,
\* starts no task and does not end the loop; Esc sets the error slot to None
\* and nothing else; and with the error slot None a key gets its normal
\* handler (q ends the loop, Left and Right select the list).
C12_ErrorGate ==
    /\ [][\A code \in KeyCodes :
             IsSome(app.error) /\ KeyPress(code) =>
                /\ UNCHANGED <<tasksAndHandles, chanVars, envVars, result>>
                /\ pc' # "exited"
                /\ IF code = "Esc"
                   THEN app' = [app EXCEPT !.error = None]
                   ELSE app' = app]_vars
    /\ [][/\ (IsNone(app.error) /\ KeyPress("q") =>
                pc' = "exited" /\ result' = Some(Ok("unit")))
           /\ (IsNone(app.error) /\ KeyPress("Right") => app'.selected_list = "Paired")
           /\ (IsNone(app.error) /\ KeyPress("Left") => app'.selected_list = "Unpaired")]_vars

\* C12's case: an error is displayed while the adapter is there and an idle
\* device is selected, so that q, s and Enter would all act without the gate
C12_Witness ==
    /\ pc = "select"
    /\ IsSome(app.error)
    /\ IsSome(adapter)
    /\ app.selected_row < Len(ActiveMap(app))
    /\ IsNone(ActiveMap(app)[app.selected_row + 1].value.loading)

\* C13: at most one scanner task that is not cancelled exists, and it is the
\* one adapter_events_handle names; none exists before the adapter is
\* available; the first is started when the adapter result is received; a
\* rescan leaves only the scanner it starts.
C13_OneScanner ==
    /\ [](/\ Cardinality(scanners) <= 1
          /\ \A g \in scanners : adapter_events_handle = Some(g)
          /\ (IsNone(adapter) => scanners = {} /\ scan_count = 0))
    /\ [][/\ (AdapterRecv /\ pc' # "exited" =>
                scan_count = 0 /\ scanners' = {1} /\ adapter_events_handle' = Some(1))
           /\ (KeyRescan /\ IsSome(adapter) =>
                scanners' = {scan_count + 1} /\ scanners' \cap scanners = {})]_vars

\* C13's case: a rescan has replaced a scanner that was still running
C13_Witness ==
    /\ pc = "draw"
    /\ scan_count >= 2
    /\ scanners = {scan_count}
    /\ rx_additions # <<>>
    /\ Head(rx_additions).scan < scan_count

\* the Enter step whose adapter.device(addr) returned Err: the only Enter
\* step that ends with an error displayed
EnterLookupFailed == KeyEnter /\ IsSome(app'.error)

\* the adapter result received is an Err
AdapterFailed == AdapterRecv /\ Head(rx_adapter)[1] = "Err"

\* C14: a failed adapter acquisition ends the loop with that error as soon as
\* its result is received; a pair or connect failure received by the loop and
\* a failed device-handle lookup at activation do not end the loop and change
\* nothing but the error slot.
C14_OnlyAdapterFailureIsFatal ==
    [][/\ (AdapterFailed => pc' = "exited" /\ result' = Some(Head(rx_adapter)))
       /\ (ErrorRecv =>
              /\ pc' # "exited" /\ result' = None
              /\ app' = [app EXCEPT !.error = Some(Head(rx_errors))]
              /\ UNCHANGED tasksAndHandles)
       /\ (EnterLookupFailed =>
              /\ pc' # "exited" /\ result' = None
              /\ app' = [app EXCEPT !.error = app'.error]
              /\ UNCHANGED tasksAndHandles)]_vars

\* C14, the part that holds: a failed adapter acquisition ends the loop with
\* that error; a pair or connect failure only sets the error slot; a failed
\* lookup does not end the loop, starts no task and sets the error slot, and
\* the only other change is the loading field of the selected device.
C14_FailuresKeepTheLoop ==
    [][/\ (AdapterFailed => pc' = "exited" /\ result' = Some(Head(rx_adapter)))
       /\ (ErrorRecv =>
              /\ pc' # "exited" /\ result' = None
              /\ app' = [app EXCEPT !.error = Some(Head(rx_errors))]
              /\ UNCHANGED tasksAndHandles)
       /\ (EnterLookupFailed =>
              /\ pc' # "exited" /\ result' = None
              /\ set_loading_at(app', None) = [set_loading_at(app, None) EXCEPT !.error = app'.error]
              /\ UNCHANGED tasksAndHandles)]_vars

\* C15: Down adds one to selected_row exactly when selected_row is below
\* len(active list) - 1 and so never takes it past the last index; Up takes
\* one off exactly when selected_row is above 0 and so never takes it below
\* 0; otherwise, and for the rest of the state, the keys change nothing.
C15_DownUpStayInBounds ==
    [][/\ (KeyDown =>
              /\ IF app.selected_row < Len(ActiveMap(app)) - 1
                 THEN /\ app' = [app EXCEPT !.selected_row = app.selected_row + 1]
                      /\ app'.selected_row <= Len(ActiveMap(app')) - 1
                 ELSE app' = app
              /\ UNCHANGED <<tasksAndHandles, chanVars, envVars, result>>)
       /\ (KeyUp =>
              /\ IF app.selected_row > 0
                 THEN /\ app' = [app EXCEPT !.selected_row = app.selected_row - 1]
                      /\ app'.selected_row >= 0
                 ELSE app' = app
              /\ UNCHANGED <<tasksAndHandles, chanVars, envVars, result>>)]_vars

\* C15's case: the last of two devices is selected, so that Down must stay
\* and Up must move
C15_Witness ==
    /\ pc = "select"
    /\ IsNone(app.error)
    /\ Len(ActiveMap(app)) = 2
    /\ app.selected_row = 1

\* Enter is pressed on an idle selected device with the adapter there and
\* no error displayed, and the device handle resolves
EnterDispatches ==
    /\ KeyEnter
    /\ IsSome(adapter)
    /\ app.selected_row < Len(ActiveMap(app))
    /\ IsNone(ActiveMap(app)[app.selected_row + 1].value.loading)
    /\ IsNone(app'.error)

\* C16: Enter on an idle selected device sets its loading to Some(0) and
\* nothing else in app, puts its address into the spinner table and starts
\* exactly one worker: a pair for the Unpaired list, a connect for the Paired
\* list, carrying 'pairing with <alias>' or 'connecting to <alias>' with the
\* alias of that moment. A worker that fails reports that process and the
\* failure as message.
C16_EnterStartsOneWorker ==
    [][/\ (EnterDispatches =>
              LET entry == ActiveMap(app)[app.selected_row + 1]
                  unpaired == app.selected_list = "Unpaired"
                  w == [addr |-> entry.key,
                        op |-> IF unpaired THEN "pair" ELSE "connect",
                        process |-> IF unpaired
                                    THEN "pairing with " \o entry.value.alias
                                    ELSE "connecting to " \o entry.value.alias]
              IN /\ ActiveMap(app')[app.selected_row + 1].value.loading = Some(0)
                 /\ set_loading_at(app', None) = app
                 /\ spinners' = spinners \cup {entry.key}
                 /\ workers' = workers (+) SetToBag({w})
                 /\ pc' # "exited")
       /\ (WorkerFinish /\ reporting' # reporting =>
              \E w \in BagToSet(workers), f \in Failures :
                 /\ workers' = workers (-) SetToBag({w})
                 /\ rx_complete' = Append(rx_complete, w.addr)
                 /\ reporting' = reporting (+)
                       SetToBag({[message |-> f, process |-> w.process]}))
       /\ (WorkerReport =>
              \E e \in BagToSet(reporting) :
                 /\ reporting' = reporting (-) SetToBag({e})
                 /\ rx_errors' = Append(rx_errors, e))]_vars

\* C16's case: a connect started from the Paired list has failed and its
\* error waits for the loop, the device still loading
C16_Witness ==
    /\ pc = "select"
    /\ rx_errors # <<>>
    /\ Head(rx_errors) = [message |-> "refused", process |-> "connecting to Speaker"]
    /\ app.selected_list = "Paired"
    /\ Loading(app, "A1")

\* C17: whenever a device's loading is Some, it is None again (or the record
\* is gone) at some later time.
C17_LoadingEventuallyCleared ==
    \A a \in Addr : Loading(app, a) ~> ~Loading(app, a)

\* C18: an Alias change for an address sets the alias of the address's record
\* in whichever mapping holds it, and changes nothing when no mapping holds it.
C18_AliasChangeReachesRecord ==
    [][\A i \in 1..Len(changes) :
          ChangeEvent(i) /\ changes[i].prop = "Alias" =>
             LET a == changes[i].addr IN
             /\ contains_key(app.unpaired, a) =>
                   /\ contains_key(app'.unpaired, a)
                   /\ get(app'.unpaired, a).alias = changes[i].val
             /\ contains_key(app.paired, a) =>
                   /\ contains_key(app'.paired, a)
                   /\ get(app'.paired, a).alias = changes[i].val
             /\ ~Known(app, a) => app' = app]_vars

\* the mapping of ap that the daemon's paired state of a selects
FetchedMap(ap, a) == IF devPaired[a] THEN ap.paired ELSE ap.unpaired

\* C19: intake of an address whose record already sits in the mapping the
\* fetched paired state selects, with the alias and connected state that
\* record has, leaves the registry as it was, loading and position included.
C19_DuplicateIntakeIdempotent ==
    [][Addition =>
          LET a == Head(rx_additions).addr IN
          (/\ contains_key(FetchedMap(app, a), a)
           /\ contains_key(FetchedMap(app', a), a)
           /\ get(FetchedMap(app', a), a).alias = get(FetchedMap(app, a), a).alias
           /\ get(FetchedMap(app', a), a).connected = get(FetchedMap(app, a), a).connected)
          => app' = app]_vars

\* C20: intake adds a property stream for an address only when it also
\* leaves a record of that address in the registry.
C20_StreamOnlyWithRecord ==
    [][Addition /\ streams' # streams => Known(app', Head(rx_additions).addr)]_vars

\* C21: while adapter is None the rescan key, the Enter key and a discovered
\* address change nothing in app, start no scanner, worker, spinner or stream
\* and do not end the loop; and while adapter is None both mappings, the
\* spinner table and the sets of tasks are empty.
C21_NoOpsBeforeAdapter ==
    /\ [][IsNone(adapter) /\ (KeyRescan \/ KeyEnter \/ Addition) =>
             /\ UNCHANGED <<app, tasksAndHandles, envVars, result>>
             /\ pc' # "exited"]_vars
    /\ [](IsNone(adapter) =>
             /\ app.unpaired = <<>> /\ app.paired = <<>>
             /\ spinners = {} /\ orphans = {}
             /\ workers = EmptyBag /\ scanners = {}
             /\ \A a \in Addr : streams[a] = 0)

\* C21's case: the loop has processed an event and is back at the top while
\* the adapter result still waits in its channel
C21_Witness ==
    /\ pc = "draw"
    /\ result = None
    /\ IsNone(adapter)
    /\ rx_adapter # <<>>

\* C22: a worker whose call returns sends one completion event for its
\* address and, in that step, no error; if the call failed it then sends one
\* error, and nothing else; if the call succeeded it sends no error. Nothing
\* but a returning worker sends a completion, and nothing but a failed worker
\* that has sent its completion sends an error.
C22_CompletionThenError ==
    [][/\ (workers' # workers /\ WorkerFinish =>
              \E w \in BagToSet(workers) :
                 /\ workers' = workers (-) SetToBag({w})
                 /\ rx_complete' = Append(rx_complete, w.addr)
                 /\ rx_errors' = rx_errors
                 /\ \/ reporting' = reporting
                    \/ \E f \in Failures :
                          reporting' = reporting (+) SetToBag({Error(f, w.process)}))
       /\ (reporting' # reporting /\ WorkerReport =>
              \E e \in BagToSet(reporting) :
                 /\ reporting' = reporting (-) SetToBag({e})
                 /\ rx_errors' = Append(rx_errors, e)
                 /\ UNCHANGED <<rx_complete, workers>>)
       /\ (Len(rx_complete') > Len(rx_complete) => WorkerFinish)
       /\ (Len(rx_errors') > Len(rx_errors) => WorkerReport)
       /\ (BagCardinality(reporting') > BagCardinality(reporting) => WorkerFinish)]_vars

\* C22's case: a worker's call has failed, the loop has already processed its
\* completion, and the error is still to be sent
C22_Witness ==
    /\ pc = "select"
    /\ reporting # EmptyBag
    /\ rx_complete = <<>>
    /\ workers = EmptyBag

\* the loop processes an event: one arm of select! runs
Processes ==
    \/ Tick \/ Complete \/ ErrorRecv \/ Addition \/ Change \/ AdapterRecv
    \/ EventReadFail \/ EventNotKey \/ KeyWhileError \/ KeyQuit \/ KeyDown
    \/ KeyUp \/ KeyLeft \/ KeyRight \/ KeyRescan \/ KeyEnter \/ KeyEsc \/ KeyOther

\* C23: the run starts at the render with the initial empty state; a render
\* changes nothing and is followed by the wait; an event is processed only
\* from the wait, that is after exactly one render since the previous event,
\* and unless it ends the loop it leads back to the render; and nothing of the
\* loop's state changes between the end of an event and the render.
C23_RenderOncePerEvent ==
    /\ pc = "draw" /\ app = AppDefault
    /\ [][/\ (pc = "draw" =>
                \/ pc' = "select" /\ UNCHANGED <<app, result, tasksAndHandles, chanVars>>
                \/ pc' = "exited")
          /\ (pc' # "draw" /\ pc' # "exited" => ~Processes)
          /\ (pc # "select" => ~Processes)
          /\ (pc' = "draw" => pc = "select" /\ result' = None)]_vars

\* C23's case: an event has been processed (a device was taken in) and the
\* loop is back at the render
C23_Witness ==
    /\ pc = "draw"
    /\ result = None
    /\ app.unpaired # <<>>


\* C24: processing an error event stores that error in the slot whatever the
\* slot held; a displayed error is replaced only by processing an error event
\* and is cleared only by processing an Esc key; no other event of a running
\* loop changes a slot that holds an error.
C24_ErrorSlot ==
    [][/\ (rx_errors' # rx_errors /\ ErrorRecv => app'.error = Some(Head(rx_errors)))
       /\ (IsSome(app.error) /\ app'.error # app.error /\ pc' # "exited" =>
              \/ IsNone(app'.error) /\ KeyPressWhileError("Esc")
              \/ IsSome(app'.error) /\ ErrorRecv)
       /\ (IsSome(app.error) /\ pc' # "exited" /\
           (Tick \/ Complete \/ Addition \/ Change \/ AdapterRecv \/ KeyRescan) =>
              app'.error = app.error)]_vars

\* C24's case: an error is displayed and a different one is next on the channel
C24_Witness ==
    /\ pc = "select"
    /\ IsSome(app.error)
    /\ rx_errors # <<>>
    /\ Some(Head(rx_errors)) # app.error


\* the change event at position i is a Connected change and is processed
ConnectedEvent(i) ==
    /\ pc = "select"
    /\ i \in 1..Len(changes)
    /\ changes[i].prop = "Connected"
    /\ ChangeEvent(i)

\* C25 (what the code does): a Connected change sets the connected flag of the
\* record that paired holds for the address and changes nothing else; when
\* paired holds no record for the address the whole registry is unchanged.
C25_ConnectedOnlyInPaired ==
    [][\A i \in 1..MaxPending + 1 : ConnectedEvent(i) =>
          LET e == changes[i] IN
             IF contains_key(app.paired, e.addr)
             THEN app' = [app EXCEPT !.paired = insert(@, e.addr,
                                [get(@, e.addr) EXCEPT !.connected = e.val])]
             ELSE app' = app]_vars

\* C25: a Connected change for an address that is in unpaired, or in neither
\* mapping, leaves the whole registry unchanged; for any address it leaves
\* unpaired unchanged and changes in paired only the connected flag of the
\* record of that address.
C25_ConnectedLeavesUnpaired ==
    [][\A i \in 1..MaxPending + 1 : ConnectedEvent(i) =>
          LET e == changes[i] IN
             /\ app'.unpaired = app.unpaired
             /\ Keys(app'.paired) = Keys(app.paired)
             /\ \A a \in Addr : contains_key(app.paired, a) =>
                   /\ get(app'.paired, a).alias = get(app.paired, a).alias
                   /\ get(app'.paired, a).loading = get(app.paired, a).loading
                   /\ a # e.addr => get(app'.paired, a) = get(app.paired, a)
             /\ (contains_key(app.unpaired, e.addr) \/ ~contains_key(app.paired, e.addr)
                    => app' = app)]_vars

\* C25's case: a Connected change with a new value has been delivered for a
\* device that unpaired holds
C25_Witness ==
    /\ pc = "select"
    /\ \E i \in 1..Len(changes) :
          /\ changes[i].prop = "Connected"
          /\ contains_key(app.unpaired, changes[i].addr)
          /\ get(app.unpaired, changes[i].addr).connected # changes[i].val


\* C26 as a whole: in a running loop the connected flag of every record in paired is the
\* connected value the loop received last for that address, whether at intake
\* or by a Connected change.
C26_ConnectedIsLatest ==
    pc # "exited" =>
       \A a \in Addr : contains_key(app.paired, a) =>
          Some(get(app.paired, a).connected) = observed[a]


\* C26, the case the claim stresses: in a running loop, for every address
\* that only paired holds and that was taken in once (one property stream),
\* the connected flag of the record is the connected value the loop received
\* last for that address, also when the record was moved from unpaired.
C26_MovedRecordIsLatest ==
    pc # "exited" =>
       \A a \in Addr : contains_key(app.paired, a) /\ ~contains_key(app.unpaired, a) /\ streams[a] = 1 =>
          Some(get(app.paired, a).connected) = observed[a]


\* the record of a is in the mapping that the daemon's paired state names
InActualMapping(a) ==
    /\ contains_key(app.paired, a) => devPaired[a]
    /\ contains_key(app.unpaired, a) => ~devPaired[a]

\* C27 as a whole: in a running loop that has not rescanned, when no discovery
\* and no property-change event is pending, every record is in paired if and
\* only if the device is actually paired.
C27_RegistryMatchesDaemon ==
    pc # "exited" /\ scan_count <= 1 /\ rx_additions = <<>> /\ changes = <<>> =>
       \A a \in Addr : InActualMapping(a)

\* C27, the case the claim stresses: the same for the devices that were taken
\* in once, so that the only way to miss a paired-state change is that it
\* happened during that intake, before the property stream was opened.
C27_ChangeDuringIntakeNotLost ==
    pc # "exited" /\ scan_count <= 1 /\ rx_additions = <<>> /\ changes = <<>> =>
       \A a \in Addr : streams[a] = 1 => InActualMapping(a)

====
